---- MODULE Spec2Model ----
(***************************************************************************)
(* Duty-cycle controller of the ESP32 ultrasonic person detector           *)
(* (src/src/main.cpp): wake, sample the sensor for the active window,      *)
(* vote, report a state change over WiFi/Firebase, pick a sleep duration,  *)
(* deep-sleep, and start over from setup() on the timer wake.              *)
(*                                                                         *)
(* Distances are kept in thousandths of a centimetre so that the           *)
(* conversion duration * 0.034 / 2.0 is exact on integers.                 *)
(***************************************************************************)
EXTENDS Integers, Naturals, Sequences, FiniteSets, TLC

(*------------------------- program constants ----------------------------*)
OBJECT_THRESHOLD_CM == 50            \* main.cpp:59
ACTIVE_PERIOD_MS == 5000             \* main.cpp:60
MEASUREMENT_INTERVAL_MS == 500       \* main.cpp:61
REQUIRED_COUNT == 6                  \* main.cpp:62
NO_PERSON_SLEEP_MS == 30000          \* main.cpp:65
PERSON_SLEEP_MS == 10000             \* main.cpp:66
PULSE_TIMEOUT_US == 30000            \* main.cpp:91, pulseIn timeout
WIFI_RETRIES == 20                   \* main.cpp:105
WIFI_RETRY_DELAY_MS == 500           \* main.cpp:107
PRESENCE_PATH == "/lab4/presence"    \* main.cpp:188

WL_CONNECTED == "WL_CONNECTED"
WL_DISCONNECTED == "WL_DISCONNECTED"

(*------------------------------ bounds ----------------------------------*)
\* number of power losses (cold boots) a behaviour may contain
MaxColdBoots == 1

\* echo pulse widths the sensor may return, in microseconds: 0 is the
\* pulseIn timeout, 2941/2942 straddle the 50 cm threshold
Durations == {0, 2941, 2942}

\* time one measurement may take, in milliseconds (0 .. echo timeout)
MeasureTimes == {0, PULSE_TIMEOUT_US \div 1000}

\* results of Database.set (the bool ok of line 138)
PushOutcomes == {TRUE, FALSE}

VARIABLES
    pc,                   \* position in setup(), or "sleep"
    lastPersonPresent,    \* RTC_DATA_ATTR bool, survives deep sleep
    now,                  \* millis() as the sampling loop reads it; the
                          \* clock is not read, and not tracked, after it
    startTime,            \* setup local
    detectionCount,       \* setup local
    totalCount,           \* setup local
    currentPersonPresent, \* setup local
    sleepDuration,        \* setup local
    retries,              \* connectWiFi local
    wifiOn,               \* WiFi.begin called and not yet disconnect(true)
    wifiStatus,           \* what WiFi.status() returns
    wakeupUs,             \* argument of esp_sleep_enable_timer_wakeup
    sink,                 \* what the database holds at PRESENCE_PATH:
                          \* {} while never written, else {value}
    \* ---- observation of the run (never read by the program) ----
    prior,                \* lastPersonPresent when this cycle started
    sinkAtStart,          \* sink when this cycle started
    trace,                \* network operations of this cycle, in order
    pushed,               \* values handed to Database.set in this cycle
    budgetExhausted,      \* connect loop left with retries = 0, no link
    connectFailed,        \* line 112 saw no link: "WiFi connection failed."
    sendSawLink,          \* WiFi.status() as read by sendToFirebase
    polls,                \* reads of WiFi.status() made by connectWiFi
    waitedMs,             \* time connectWiFi spent in delay()
    prev,                 \* summary of the cycle before this one, if it
                          \* ended in sleep and no power loss came between
    coldBoots,            \* power losses so far
    lastAttempt,          \* {status} of the latest report attempt since
                          \* the last power-on, {} before the first one
    recording,            \* whether the sample window is recorded
    window                \* distances sampled in this cycle (if recording)

vars == <<pc, lastPersonPresent, now, startTime, detectionCount, totalCount,
          currentPersonPresent, sleepDuration, retries, wifiOn, wifiStatus,
          wakeupUs, sink, prior, sinkAtStart, trace, pushed, budgetExhausted,
          connectFailed,
          sendSawLink, polls, waitedMs, prev,
          coldBoots, lastAttempt, recording, window>>

locals == <<startTime, detectionCount, totalCount, currentPersonPresent,
            sleepDuration, retries>>
radio == <<wifiOn, wifiStatus>>
cycleObs == <<prior, sinkAtStart, trace, pushed, budgetExhausted,
              connectFailed, sendSawLink,
              polls, waitedMs>>

\* a push of this cycle was accepted by the database
Delivered == \E i \in DOMAIN pushed : pushed[i].ok

NoPrev == [valid |-> FALSE, verdict |-> FALSE, attempted |-> FALSE,
           delivered |-> FALSE, exhausted |-> FALSE]

(*--------------------------- pure helpers -------------------------------*)
\* measureDistanceCM: distance = (duration * 0.034) / 2.0, in 1/1000 cm
DistanceMilliCM(duration) == (duration * 34) \div 2

IsClose_validOnly(dist) == dist > 0 /\ dist < OBJECT_THRESHOLD_CM * 1000

\* dist < OBJECT_THRESHOLD_CM
IsClose(dist) == dist < OBJECT_THRESHOLD_CM * 1000

WindowOpen_inclusive(t, start) == t - start <= ACTIVE_PERIOD_MS

\* while (millis() - startTime < ACTIVE_PERIOD_MS)
WindowOpen(t, start) == t - start < ACTIVE_PERIOD_MS

Verdict_strict(count) == count > REQUIRED_COUNT

\* bool currentPersonPresent = (detectionCount >= REQUIRED_COUNT)
Verdict(count) == count >= REQUIRED_COUNT

ShouldReport_always(cur, last) == TRUE

ShouldReport_whenPresent(cur, last) == cur

ShouldReport_onlyArrival(cur, last) == cur /\ ~last

\* if (currentPersonPresent != lastPersonPresent)
ShouldReport(cur, last) == cur # last

StatusCode_inverted(cur) == IF cur THEN 0 ELSE 1

\* currentPersonPresent ? 1 : 0
StatusCode(cur) == IF cur THEN 1 ELSE 0

SleepDurationFor_swapped(cur) ==
    IF cur THEN NO_PERSON_SLEEP_MS ELSE PERSON_SLEEP_MS

\* sleepDuration = currentPersonPresent ? PERSON_SLEEP_MS : NO_PERSON_SLEEP_MS
SleepDurationFor(cur) == IF cur THEN PERSON_SLEEP_MS ELSE NO_PERSON_SLEEP_MS

\* retries--
NextRetries(r) == r - 1

CanSend_always(status) == TRUE

\* if (WiFi.status() == WL_CONNECTED), line 137
CanSend(status) == status = WL_CONNECTED

(*------------------------------ Init ------------------------------------*)
\* State right after the first power-on: RTC memory holds its initializer,
\* the radio is off, nothing was ever written to the database.
InitCommon ==
    /\ pc = "boot"
    /\ lastPersonPresent = FALSE
    /\ now = 0
    /\ startTime = 0
    /\ detectionCount = 0
    /\ totalCount = 0
    /\ currentPersonPresent = FALSE
    /\ sleepDuration = 0
    /\ retries = 0
    /\ wifiOn = FALSE
    /\ wifiStatus = WL_DISCONNECTED
    /\ wakeupUs = 0
    /\ sink = {}
    /\ prior = FALSE
    /\ sinkAtStart = {}
    /\ trace = <<>>
    /\ pushed = <<>>
    /\ budgetExhausted = FALSE
    /\ connectFailed = FALSE
    /\ sendSawLink = FALSE
    /\ polls = 0
    /\ waitedMs = 0
    /\ prev = NoPrev
    /\ coldBoots = 0
    /\ lastAttempt = {}
    /\ window = <<>>

Init == InitCommon /\ recording = FALSE

(*----------------------------- setup() ----------------------------------*)
\* lines 151-159: entry of setup() after any reset
SetupBegin ==
    /\ pc = "boot"
    /\ startTime' = now
    /\ detectionCount' = 0
    /\ totalCount' = 0
    /\ prior' = lastPersonPresent
    /\ sinkAtStart' = sink
    /\ trace' = <<>>
    /\ pushed' = <<>>
    /\ budgetExhausted' = FALSE
    /\ connectFailed' = FALSE
    /\ sendSawLink' = FALSE
    /\ polls' = 0
    /\ waitedMs' = 0
    /\ window' = <<>>
    /\ pc' = "sampling"
    /\ UNCHANGED <<lastPersonPresent, now, currentPersonPresent, sleepDuration,
                   retries, radio, wakeupUs, sink, prev,
                   coldBoots, lastAttempt, recording>>

\* lines 162-169: one iteration of the sampling loop; duration is what
\* pulseIn returns, mtime the time measureDistanceCM took
Sample(duration, mtime) ==
    /\ pc = "sampling"
    /\ WindowOpen(now, startTime)
    /\ LET dist == DistanceMilliCM(duration) IN
         /\ totalCount' = totalCount + 1
         /\ detectionCount' = IF IsClose(dist) THEN detectionCount + 1
                                               ELSE detectionCount
         /\ window' = IF recording THEN Append(window, dist) ELSE window
    /\ now' = now + mtime + MEASUREMENT_INTERVAL_MS
    /\ UNCHANGED <<pc, lastPersonPresent, startTime, currentPersonPresent,
                   sleepDuration, retries, radio, wakeupUs, sink, cycleObs,
                   prev, coldBoots, lastAttempt, recording>>

SampleStep == \E d \in Durations, m \in MeasureTimes : Sample(d, m)

\* the vote taken on whatever was sampled so far
Classify_early ==
    /\ pc = "sampling"
    /\ currentPersonPresent' = Verdict(detectionCount)
    /\ now' = 0
    /\ pc' = "decide"
    /\ UNCHANGED <<lastPersonPresent, startTime, detectionCount,
                   totalCount, sleepDuration, retries, radio, wakeupUs, sink,
                   cycleObs, prev, coldBoots, lastAttempt, recording, window>>

\* lines 162, 172: the loop condition fails, the verdict is computed
Classify ==
    /\ pc = "sampling"
    /\ ~WindowOpen(now, startTime)
    /\ currentPersonPresent' = Verdict(detectionCount)
    /\ now' = 0
    /\ pc' = "decide"
    /\ UNCHANGED <<lastPersonPresent, startTime, detectionCount,
                   totalCount, sleepDuration, retries, radio, wakeupUs, sink,
                   cycleObs, prev, coldBoots, lastAttempt, recording, window>>

\* lines 183, 193-195: the report decision
Decide ==
    /\ pc = "decide"
    /\ pc' = IF ShouldReport(currentPersonPresent, lastPersonPresent)
             THEN "wifi_begin" ELSE "select_sleep"
    /\ lastAttempt' = IF ShouldReport(currentPersonPresent, lastPersonPresent)
                      THEN {StatusCode(currentPersonPresent)}
                      ELSE lastAttempt
    /\ UNCHANGED <<lastPersonPresent, now, locals, radio, wakeupUs, sink,
                   cycleObs, prev, coldBoots, recording, window>>

(*--------------------------- connectWiFi() ------------------------------*)
\* lines 103-105: WiFi.begin starts the station, the budget is set
WiFiBegin ==
    /\ pc = "wifi_begin"
    /\ wifiOn' = TRUE
    /\ retries' = WIFI_RETRIES
    /\ trace' = Append(trace, "connectWiFi")
    /\ pc' = "wifi_wait"
    /\ UNCHANGED <<lastPersonPresent, now, startTime, detectionCount,
                   totalCount, currentPersonPresent, sleepDuration, wifiStatus,
                   wakeupUs, sink, prior, sinkAtStart, pushed, budgetExhausted,
                   connectFailed,
                   sendSawLink, polls, waitedMs, prev,
                   coldBoots, lastAttempt, recording,
                   window>>

\* the loop without its retries--: it waits for the link and nothing else
ConnectPoll_noBudget ==
    /\ pc = "wifi_wait"
    /\ wifiStatus # WL_CONNECTED /\ retries > 0
    /\ UNCHANGED vars

\* lines 106-110: the loop condition holds; wait and spend one retry
ConnectPoll ==
    /\ pc = "wifi_wait"
    /\ wifiStatus # WL_CONNECTED /\ retries > 0
    /\ waitedMs' = waitedMs + WIFI_RETRY_DELAY_MS
    /\ retries' = NextRetries(retries)
    /\ polls' = polls + 1
    /\ UNCHANGED <<pc, lastPersonPresent, now, startTime, detectionCount,
                   totalCount, currentPersonPresent, sleepDuration, radio,
                   wakeupUs, sink, prior, sinkAtStart, trace, pushed,
                   budgetExhausted, connectFailed, sendSawLink, prev,
                   coldBoots, lastAttempt, recording,
                   window>>

\* line 106: the loop condition fails, by a connection or by the budget
ConnectLoopExit ==
    /\ pc = "wifi_wait"
    /\ ~(wifiStatus # WL_CONNECTED /\ retries > 0)
    /\ budgetExhausted' = (wifiStatus # WL_CONNECTED)
    /\ polls' = polls + 1
    /\ pc' = "wifi_result"
    /\ UNCHANGED <<lastPersonPresent, now, locals, radio, wakeupUs, sink,
                   prior, sinkAtStart, trace, pushed, connectFailed,
                   sendSawLink, waitedMs, prev, coldBoots, lastAttempt,
                   recording, window>>

\* connectWiFi as it would be if a failed connect ended the report
ConnectResult_abortsOnFailure ==
    /\ pc = "wifi_result"
    /\ polls' = polls + 1
    /\ connectFailed' = (wifiStatus # WL_CONNECTED)
    /\ pc' = IF wifiStatus = WL_CONNECTED THEN "init_firebase"
                                          ELSE "select_sleep"
    /\ UNCHANGED <<lastPersonPresent, now, locals, radio, wakeupUs, sink,
                   prior, sinkAtStart, trace, pushed, budgetExhausted,
                   sendSawLink, waitedMs, prev, coldBoots, lastAttempt,
                   recording, window>>

\* lines 111-118: the status is read again, to log the outcome;
\* connectWiFi returns void in both branches
ConnectResult ==
    /\ pc = "wifi_result"
    /\ polls' = polls + 1
    /\ connectFailed' = (wifiStatus # WL_CONNECTED)
    /\ pc' = "init_firebase"
    /\ UNCHANGED <<lastPersonPresent, now, locals, radio, wakeupUs, sink,
                   prior, sinkAtStart, trace, pushed, budgetExhausted,
                   sendSawLink, waitedMs, prev, coldBoots, lastAttempt,
                   recording, window>>

(*--------------------------- initFirebase() -----------------------------*)
\* lines 123-131: client set-up, no effect on the controller's state
InitFirebase ==
    /\ pc = "init_firebase"
    /\ trace' = Append(trace, "initFirebase")
    /\ pc' = "send"
    /\ UNCHANGED <<lastPersonPresent, now, locals, radio, wakeupUs, sink,
                   prior, sinkAtStart, pushed, budgetExhausted,
                   connectFailed, sendSawLink,
                   polls, waitedMs, prev,
                   coldBoots, lastAttempt, recording, window>>

(*-------------------------- sendToFirebase() ----------------------------*)
\* lines 136-148 called from line 188: Database.set only when the status
\* read at line 137 is WL_CONNECTED; a failed set leaves the sink as it was
SendToFirebase ==
    /\ pc = "send"
    /\ trace' = Append(trace, "sendToFirebase")
    /\ sendSawLink' = (wifiStatus = WL_CONNECTED)
    /\ IF CanSend(wifiStatus)
       THEN \E ok \in PushOutcomes :
              /\ pushed' = Append(pushed,
                              [path |-> PRESENCE_PATH,
                               value |-> StatusCode(currentPersonPresent),
                               ok |-> ok])
              /\ sink' = IF ok THEN {StatusCode(currentPersonPresent)}
                                ELSE sink
       ELSE UNCHANGED <<pushed, sink>>
    /\ pc' = "disconnect"
    /\ UNCHANGED <<lastPersonPresent, now, locals, radio, wakeupUs, prior,
                   sinkAtStart, budgetExhausted,
                   connectFailed, polls, waitedMs, prev,
                   coldBoots, lastAttempt, recording, window>>

(*------------------------ back in setup() -------------------------------*)
WiFiDisconnect_onlyAfterPush ==
    /\ pc = "disconnect"
    /\ wifiOn' = (wifiOn /\ pushed = <<>>)
    /\ wifiStatus' = IF pushed = <<>> THEN wifiStatus ELSE WL_DISCONNECTED
    /\ trace' = IF pushed = <<>> THEN trace ELSE Append(trace, "disconnect")
    /\ pc' = "store"
    /\ UNCHANGED <<lastPersonPresent, now, locals, wakeupUs, sink, prior,
                   sinkAtStart, pushed, budgetExhausted,
                   connectFailed, sendSawLink, polls,
                   waitedMs, prev, coldBoots, lastAttempt, recording, window>>

\* line 190: WiFi.disconnect(true) drops the link and turns the radio off
WiFiDisconnect ==
    /\ pc = "disconnect"
    /\ wifiOn' = FALSE
    /\ wifiStatus' = WL_DISCONNECTED
    /\ trace' = Append(trace, "disconnect")
    /\ pc' = "store"
    /\ UNCHANGED <<lastPersonPresent, now, locals, wakeupUs, sink, prior,
                   sinkAtStart, pushed, budgetExhausted,
                   connectFailed, sendSawLink, polls,
                   waitedMs, prev, coldBoots, lastAttempt, recording, window>>

NewPrior_onlyDelivered(cur, last, delivered) ==
    IF delivered THEN cur ELSE last

NewPrior_stale(cur, last, delivered) == last

\* the value line 192 writes: the verdict, whatever the push did
NewPrior(cur, last, delivered) == cur

\* line 192: lastPersonPresent = currentPersonPresent
StoreState ==
    /\ pc = "store"
    /\ lastPersonPresent' = NewPrior(currentPersonPresent, lastPersonPresent,
                                     Delivered)
    /\ pc' = "select_sleep"
    /\ UNCHANGED <<now, locals, radio, wakeupUs, sink, cycleObs, prev,
                   coldBoots, lastAttempt, recording, window>>

\* lines 200-207
SelectSleep ==
    /\ pc = "select_sleep"
    /\ sleepDuration' = SleepDurationFor(currentPersonPresent)
    /\ pc' = "arm"
    /\ UNCHANGED <<lastPersonPresent, now, startTime, detectionCount,
                   totalCount, currentPersonPresent, retries, radio, wakeupUs,
                   sink, cycleObs, prev,
                   coldBoots, lastAttempt, recording, window>>

\* lines 211-212: the timer is armed in microseconds and the chip sleeps
DeepSleep ==
    /\ pc = "arm"
    /\ wakeupUs' = sleepDuration * 1000
    /\ pc' = "sleep"
    /\ UNCHANGED <<lastPersonPresent, now, locals, radio, sink, cycleObs,
                   prev, coldBoots, lastAttempt, recording, window>>

(*--------------------------- environment --------------------------------*)
\* the wake as it would be with lastPersonPresent in ordinary RAM
TimerWake_losesRtc ==
    /\ pc = "sleep"
    /\ pc' = "boot"
    /\ lastPersonPresent' = FALSE
    /\ now' = 0
    /\ startTime' = 0
    /\ detectionCount' = 0
    /\ totalCount' = 0
    /\ currentPersonPresent' = FALSE
    /\ sleepDuration' = 0
    /\ retries' = 0
    /\ prev' = [valid |-> TRUE, verdict |-> currentPersonPresent,
                attempted |-> trace # <<>>,
                delivered |-> Delivered,
                exhausted |-> budgetExhausted /\ pushed = <<>>]
    /\ UNCHANGED <<radio, wakeupUs, sink, cycleObs, coldBoots, lastAttempt,
                   recording, window>>

\* the wake-up timer fires: the chip resets, RAM is lost, RTC memory kept
TimerWake ==
    /\ pc = "sleep"
    /\ pc' = "boot"
    /\ now' = 0
    /\ startTime' = 0
    /\ detectionCount' = 0
    /\ totalCount' = 0
    /\ currentPersonPresent' = FALSE
    /\ sleepDuration' = 0
    /\ retries' = 0
    /\ prev' = [valid |-> TRUE, verdict |-> currentPersonPresent,
                attempted |-> trace # <<>>,
                delivered |-> Delivered,
                exhausted |-> budgetExhausted /\ pushed = <<>>]
    /\ UNCHANGED <<lastPersonPresent, radio, wakeupUs, sink, cycleObs,
                   coldBoots, lastAttempt, recording, window>>

\* the station started by WiFi.begin associates with the access point
LinkUp ==
    /\ wifiOn
    /\ wifiStatus # WL_CONNECTED
    /\ wifiStatus' = WL_CONNECTED
    /\ UNCHANGED <<pc, lastPersonPresent, now, locals, wifiOn, wakeupUs, sink,
                   cycleObs, prev, coldBoots, lastAttempt, recording, window>>

\* an established link is lost
LinkDown ==
    /\ wifiOn
    /\ wifiStatus = WL_CONNECTED
    /\ wifiStatus' = WL_DISCONNECTED
    /\ UNCHANGED <<pc, lastPersonPresent, now, locals, wifiOn, wakeupUs, sink,
                   cycleObs, prev, coldBoots, lastAttempt, recording, window>>

\* the power loss as it would be with lastPersonPresent in flash
ColdBoot_keepsState ==
    /\ coldBoots < MaxColdBoots
    /\ coldBoots' = coldBoots + 1
    /\ pc' = "boot"
    /\ now' = 0
    /\ startTime' = 0
    /\ detectionCount' = 0
    /\ totalCount' = 0
    /\ currentPersonPresent' = FALSE
    /\ sleepDuration' = 0
    /\ retries' = 0
    /\ wifiOn' = FALSE
    /\ wifiStatus' = WL_DISCONNECTED
    /\ wakeupUs' = 0
    /\ prev' = NoPrev
    /\ lastAttempt' = {}
    /\ UNCHANGED <<lastPersonPresent, sink, cycleObs, recording, window>>

\* power loss at any point: RTC memory goes back to its initializer
\* (line 78), the database keeps what it holds
ColdBoot ==
    /\ coldBoots < MaxColdBoots
    /\ coldBoots' = coldBoots + 1
    /\ pc' = "boot"
    /\ lastPersonPresent' = FALSE
    /\ now' = 0
    /\ startTime' = 0
    /\ detectionCount' = 0
    /\ totalCount' = 0
    /\ currentPersonPresent' = FALSE
    /\ sleepDuration' = 0
    /\ retries' = 0
    /\ wifiOn' = FALSE
    /\ wifiStatus' = WL_DISCONNECTED
    /\ wakeupUs' = 0
    /\ prev' = NoPrev
    /\ lastAttempt' = {}
    /\ UNCHANGED <<sink, cycleObs, recording, window>>

(*--------------------------- specifications -----------------------------*)
Program ==
    \/ SetupBegin
    \/ SampleStep
    \/ Classify
    \/ Decide
    \/ WiFiBegin
    \/ ConnectPoll
    \/ ConnectLoopExit
    \/ ConnectResult
    \/ InitFirebase
    \/ SendToFirebase
    \/ WiFiDisconnect
    \/ StoreState
    \/ SelectSleep
    \/ DeepSleep
    \/ TimerWake

Next ==
    \/ Program
    \/ LinkUp
    \/ LinkDown
    \/ ColdBoot

Spec == Init /\ [][Next]_vars

\* The program runs on its own core and the wake-up timer is hardware, so a
\* step of the cycle that can be taken is eventually taken; the access point
\* and the power supply owe the device nothing.
FairSpec == Spec /\ WF_vars(Program)

\* One cycle's sampling and vote with the window recorded, to compare the
\* running count of the loop with a count over the whole window.
WindowInit == InitCommon /\ recording = TRUE

WindowSample ==
    \E d \in Durations : Sample(d, PULSE_TIMEOUT_US \div 1000)

WindowNext ==
    \/ SetupBegin
    \/ WindowSample
    \/ Classify

WindowSpec == WindowInit /\ [][WindowNext]_vars

(*------------------------------ claims ----------------------------------*)
ReportPcs == {"wifi_begin", "wifi_wait", "wifi_result", "init_firebase",
              "send", "disconnect", "store"}

\* positions after the report decision of line 183
PostDecide == ReportPcs \cup {"select_sleep", "arm", "sleep"}

\* positions after sendToFirebase returned
PostSend == {"disconnect", "store", "select_sleep", "arm", "sleep"}

\* positions after the report branch, if taken, is over
PostReport == {"select_sleep", "arm", "sleep"}

FullReport == <<"connectWiFi", "initFirebase", "sendToFirebase", "disconnect">>

ReportEntered == pc \in ReportPcs \/ trace # <<>>

\* the boolean the database holds, false while nothing was delivered
SinkPresent == sink = {1}

\* C1: the report path is entered if and only if this cycle's verdict
\* differs from lastPersonPresent as it was at the start of the cycle, and
\* then all four steps of it are run.
C1_ReportIffChanged ==
    /\ pc \in PostDecide => (ReportEntered <=> currentPersonPresent # prior)
    /\ pc = "sleep" =>
         trace = (IF currentPersonPresent # prior THEN FullReport ELSE <<>>)

C1_Witness ==
    /\ pc = "sleep"
    /\ prior = TRUE
    /\ currentPersonPresent = FALSE
    /\ trace = FullReport

\* C2: at every entry into sleep the persisted lastPersonPresent equals the
\* value most recently delivered to the remote sink (false when nothing was
\* ever delivered).
C2_PersistedEqualsDelivered ==
    pc = "sleep" => lastPersonPresent = SinkPresent

\* C3: whenever a report was attempted in the cycle, lastPersonPresent is
\* the cycle's verdict from the store on, whether the connect failed, the
\* push returned an error or the push succeeded.
C3_AttemptSetsPrior ==
    pc \in PostReport /\ trace # <<>> =>
        lastPersonPresent = currentPersonPresent

C3_Witness ==
    /\ pc = "sleep"
    /\ trace = FullReport
    /\ budgetExhausted
    /\ pushed = <<>>
    /\ prior # currentPersonPresent
    /\ lastPersonPresent = currentPersonPresent

\* C4: in a cycle whose verdict equals lastPersonPresent no network
\* operation is performed and lastPersonPresent and the sink keep the
\* values they had when the cycle started.
C4_NoChangeNoNetwork ==
    pc \in PostDecide /\ currentPersonPresent = prior =>
        /\ trace = <<>>
        /\ pushed = <<>>
        /\ pc \notin ReportPcs
        /\ ~wifiOn
        /\ lastPersonPresent = prior
        /\ sink = sinkAtStart

C4_Witness ==
    /\ pc = "sleep"
    /\ currentPersonPresent = TRUE
    /\ prior = TRUE
    /\ trace = <<>>
    /\ sink # {1}

\* number of samples of a window that are strictly closer than 50 cm
CloseCount(w) == Cardinality({i \in DOMAIN w : w[i] < 50 * 1000})

\* C5: the verdict is true exactly when at least 6 samples of the window are
\* strictly closer than 50 cm, wherever in the window they are.
C5_VerdictIsVote ==
    pc = "decide" =>
        /\ Len(window) = totalCount
        /\ currentPersonPresent <=> (CloseCount(window) >= 6)

C5_Witness ==
    /\ pc = "decide"
    /\ CloseCount(window) = 6
    /\ window[1] >= 50 * 1000
    /\ window[Len(window)] >= 50 * 1000
    /\ currentPersonPresent

\* C6: every cycle eventually reaches the sleep call, whatever the sensor
\* returns and whatever the network does.
C6_CycleReachesSleep == (pc = "boot") ~> (pc = "sleep")

C6_Witness ==
    /\ pc = "sleep"
    /\ budgetExhausted
    /\ ~sendSawLink
    /\ waitedMs = 20 * 500

\* C7: the sleep timer is armed with 10000 ms when the verdict is true and
\* with 30000 ms when it is false, and with nothing else.
C7_SleepDuration ==
    /\ pc = "sleep" =>
         wakeupUs = (IF currentPersonPresent THEN 10000 ELSE 30000) * 1000
    /\ wakeupUs \in {0, 10000 * 1000, 30000 * 1000}
    /\ PERSON_SLEEP_MS # NO_PERSON_SLEEP_MS

C7_Witness ==
    /\ pc = "sleep"
    /\ currentPersonPresent
    /\ wakeupUs = 10000000
    /\ prev.valid /\ ~prev.verdict

\* C8: the second of two consecutive cycles with the same verdict makes no
\* network call, whatever the first one's report attempt did; and from
\* prior = false a cycle with verdict true reports and leaves prior = true.
C8_SecondCycleSilent ==
    /\ pc \in PostDecide /\ prev.valid /\ prev.verdict = currentPersonPresent
         => trace = <<>> /\ pushed = <<>> /\ pc \notin ReportPcs /\ ~wifiOn
    /\ pc = "sleep" /\ prior = FALSE /\ currentPersonPresent = TRUE
         => trace = FullReport /\ lastPersonPresent = TRUE

C8_Witness ==
    /\ pc = "sleep"
    /\ prev.valid /\ prev.verdict /\ prev.attempted /\ ~prev.delivered
    /\ currentPersonPresent
    /\ trace = <<>>

\* a missed report is not made up for while the verdict stays the same
NoRetryOfMissedReport ==
    pc \in PostDecide /\ prev.valid /\ prev.attempted /\ ~prev.delivered
        /\ prev.verdict = currentPersonPresent
      => trace = <<>> /\ pushed = <<>> /\ pc \notin ReportPcs

C10_ReleasedBeforeSleep ==
    /\ pc \in PostReport /\ currentPersonPresent # prior =>
         /\ Len(trace) = 4 /\ trace[4] = "disconnect"
         /\ ~wifiOn
    /\ pc = "sleep" => ~wifiOn /\ wifiStatus # WL_CONNECTED

C10_Witness ==
    /\ pc = "sleep"
    /\ pushed # <<>>
    /\ ~Delivered
    /\ ~wifiOn

\* positions after the sampling loop has ended
PostSampling == {"decide"} \cup PostDecide

\* C11: with a 5000 ms window, a 500 ms delay after each sample and a
\* measurement that takes between 0 and 30 ms, the sampling loop takes
\* exactly 10 samples in every cycle.
C11_ExactlyTenSamples ==
    /\ pc \in PostSampling => totalCount = 10
    /\ pc = "sampling" =>
         /\ totalCount <= 10
         /\ totalCount < 10 => now - startTime < 5000
         /\ totalCount = 10 => now - startTime >= 5000

\* the tenth sample ends exactly on the 5000 ms boundary
C11_Witness ==
    /\ pc = "sampling"
    /\ totalCount = 10
    /\ now - startTime = 5000

\* samples of a window whose echo timed out: pulseIn returned 0, which
\* measureDistanceCM turns into 0 cm
TimeoutCount(w) == Cardinality({i \in DOMAIN w : w[i] = 0})

\* C12: a timed-out sample is returned as 0 cm, is one of the samples of
\* the window and is counted as close; a window with at least 6 timed-out
\* samples yields the verdict true.
C12_TimeoutCountsAsClose ==
    /\ DistanceMilliCM(0) = 0
    /\ Len(window) = totalCount
    /\ detectionCount >= TimeoutCount(window)
    /\ pc = "decide" /\ TimeoutCount(window) >= 6 => currentPersonPresent

\* exactly 6 timeouts and 4 far samples
C12_Witness ==
    /\ pc = "decide"
    /\ TimeoutCount(window) = 6
    /\ detectionCount = 6
    /\ totalCount = 10
    /\ currentPersonPresent

\* C13: lastPersonPresent is written by the store of the report branch
\* and by nothing else the program does: sampling, the vote, the no-change
\* branch, the choice of the sleep duration and the sleep/wake transition
\* leave it as it is (a power loss, which is no step of the program, puts
\* the initializer back).
C13_OnlyReportWrites ==
    [][ /\ (lastPersonPresent' # lastPersonPresent /\ coldBoots' = coldBoots)
            => (pc = "store" /\ pc' = "select_sleep")
        /\ (pc = "sleep" /\ pc' = "boot" /\ coldBoots' = coldBoots)
            => lastPersonPresent' = lastPersonPresent
        /\ (pc = "boot" /\ pc' = "sampling")
            => /\ prior' = lastPersonPresent
               /\ lastPersonPresent' = lastPersonPresent
      ]_vars

\* a cycle that starts after a timer wake with the value a report stored
C13_Witness ==
    /\ pc = "sampling"
    /\ prev.valid /\ prev.attempted /\ prev.verdict
    /\ prior = TRUE
    /\ lastPersonPresent = TRUE

\* C14: every value pushed to the remote sink is 1 when the pushing
\* cycle's verdict is true and 0 when it is false, and goes to the one
\* fixed path; the sink never holds anything else.
C14_PushedIsVerdictCode ==
    /\ pc \in PostSend =>
         \A i \in DOMAIN pushed :
            /\ pushed[i].value = (IF currentPersonPresent THEN 1 ELSE 0)
            /\ pushed[i].path = "/lab4/presence"
    /\ \A i \in DOMAIN pushed : pushed[i].value \in {0, 1}
    /\ sink \subseteq {0, 1}
    /\ pc \in PostSend /\ Delivered =>
         sink = {IF currentPersonPresent THEN 1 ELSE 0}

\* a 0 delivered over a 1
C14_Witness ==
    /\ pc = "disconnect"
    /\ ~currentPersonPresent
    /\ sinkAtStart = {1}
    /\ Delivered
    /\ sink = {0}

\* positions inside connectWiFi after WiFi.begin
InConnect == {"wifi_wait", "wifi_result"}

\* a connect that failed does not end the report: the cycle goes on to
\* initFirebase, sendToFirebase and the disconnect
FailedConnectGoesOn ==
    /\ budgetExhausted /\ pc \in {"init_firebase", "send", "disconnect"}
         => trace = SubSeq(FullReport, 1, Len(trace)) /\ Len(trace) >= 1
    /\ budgetExhausted /\ pc \in {"store"} \cup PostReport
         => trace = FullReport

\* C15 as stated: connectWiFi reads the connection status at most 20
\* times, 500 ms apart, and returns in both outcomes; after a return
\* without a connection the cycle goes on to initFirebase, sendToFirebase
\* and the disconnect.
C15_AtMostTwentyPolls ==
    /\ polls <= 20
    /\ waitedMs <= 20 * 500
    /\ FailedConnectGoesOn

\* C15 amended: connectWiFi waits at most 20 times 500 ms; it reads the
\* status before each wait and once more when the loop ends (at most 21
\* reads in the loop) and a last time to log the outcome (at most 22 in
\* all), and returns in both outcomes; after a return without a connection
\* the cycle goes on to initFirebase, sendToFirebase and the disconnect.
C15_AtMostTwentyWaits ==
    /\ waitedMs <= 20 * 500
    /\ polls <= 22
    /\ pc = "wifi_wait" =>
         /\ polls <= 20
         /\ polls = 20 - retries
         /\ waitedMs = 500 * polls
    /\ pc = "wifi_result" => polls <= 21 /\ waitedMs = 500 * (polls - 1)
    /\ budgetExhausted /\ pc \in ReportPcs \cup PostReport =>
         waitedMs = 20 * 500 /\ polls >= 21
    /\ FailedConnectGoesOn

C15_Witness ==
    /\ pc = "sleep"
    /\ budgetExhausted
    /\ polls = 22
    /\ waitedMs = 10000
    /\ trace = FullReport
    /\ pushed = <<>>

\* C16: within a cycle the steps come in the order sampling, vote,
\* optional report, sleep: the window is over when the vote is taken, the
\* verdict is fixed before the report decision and not touched after it,
\* and the report attempt, the network release and the write of
\* lastPersonPresent are all done when the sleep timer is armed.
C16_StepOrder ==
    [][ /\ totalCount' > totalCount =>
             pc = "sampling" /\ trace = <<>> /\ ~wifiOn
        /\ (pc = "sampling" /\ pc' = "decide") =>
             now - startTime >= 5000 /\ totalCount' = totalCount
        /\ currentPersonPresent' # currentPersonPresent =>
             (pc = "sampling" /\ pc' = "decide") \/ pc' = "boot"
        /\ (trace' # trace /\ pc' # "sampling") =>
             /\ pc \in ReportPcs
             /\ currentPersonPresent' = currentPersonPresent
             /\ wakeupUs' = wakeupUs
        /\ (wakeupUs' # wakeupUs /\ coldBoots' = coldBoots) =>
             pc = "arm" /\ pc' = "sleep"
        /\ (pc # "sleep" /\ pc' = "sleep") =>
             /\ pc = "arm"
             /\ wakeupUs' = sleepDuration * 1000
             /\ trace = (IF currentPersonPresent # prior THEN FullReport
                                                         ELSE <<>>)
             /\ ~wifiOn
             /\ lastPersonPresent = currentPersonPresent
             /\ UNCHANGED <<lastPersonPresent, trace, pushed, sink, radio>>
      ]_vars

\* asleep after a delivered report
C16_Witness ==
    /\ pc = "sleep"
    /\ trace = FullReport
    /\ Delivered
    /\ totalCount = 10
    /\ wakeupUs = sleepDuration * 1000
    /\ wakeupUs > 0

\* C17: at every entry into sleep lastPersonPresent equals the verdict of
\* the cycle that is ending, on the report branch and on the no-change
\* branch and whatever the network did.
C17_SleepsWithVerdict ==
    /\ pc = "sleep" => lastPersonPresent = currentPersonPresent
    /\ pc \in PostReport => lastPersonPresent = currentPersonPresent

\* asleep after a push of 0 that the database refused
C17_Witness ==
    /\ pc = "sleep"
    /\ pushed # <<>>
    /\ ~Delivered
    /\ ~currentPersonPresent
    /\ ~lastPersonPresent
    /\ prior

\* C18: between two power losses the values of successive report attempts
\* alternate between 1 and 0, and the first attempt after a power-on
\* carries 1.
C18_AttemptsAlternate ==
    [][ (pc = "decide" /\ pc' = "wifi_begin") =>
          LET value == IF currentPersonPresent THEN 1 ELSE 0 IN
            /\ lastAttempt' = {value}
            /\ lastAttempt = {} => value = 1
            /\ lastAttempt # {} => lastAttempt = {1 - value}
      ]_vars

\* a third attempt, of 1, after a 1 and a delivered 0, with no power loss
C18_Witness ==
    /\ pc = "wifi_begin"
    /\ currentPersonPresent
    /\ lastAttempt = {1}
    /\ sinkAtStart = {0}
    /\ coldBoots = 0

C20_ColdBootReportsOnlyPresence ==
    ~prev.valid /\ pc \in PostDecide =>
        /\ prior = FALSE
        /\ ReportEntered <=> currentPersonPresent
        /\ ~currentPersonPresent =>
             trace = <<>> /\ pushed = <<>> /\ sink = sinkAtStart

\* asleep after the first cycle since a power loss, verdict false, while
\* the sink still says 1
C20_Witness ==
    /\ pc = "sleep"
    /\ ~prev.valid
    /\ coldBoots = 1
    /\ ~currentPersonPresent
    /\ trace = <<>>
    /\ sink = {1}
====
